---------------------------- MODULE Spec2Model ----------------------------
(***************************************************************************)
(* Minion Masters analyzer: the tracking core (src/minion.py,              *)
(* src/detector.py), the ratio/pixel conversions (src/utils.py), the       *)
(* update queue of the overlay (src/overlay.py) and the placement          *)
(* strategy (src/strategy.py).                                             *)
(*                                                                         *)
(* Units.  Timestamps are integers counting tenths of a second (the step   *)
(* of the prediction grid np.arange(0.1, PREDICTION_TIME, 0.1)); positions *)
(* are integer pixels.  Quantities the code computes by division (speed,   *)
(* velocity, acceleration, predicted points, ratios) are exact rationals   *)
(* <<n, d>> with d > 0 in lowest terms; binary rounding of the floats is   *)
(* not modelled.  np.hypot is the integer square root of dx^2 + dy^2,      *)
(* which is exact on the candidate positions the specifications feed       *)
(* (every step of a unit is horizontal or vertical).  The colour histogram *)
(* of a track is opaque: Minion.similarity is an input of the cycle, one   *)
(* value per track and candidate, in hundredths.  The canvas of the        *)
(* overlay is kept as the state, centre and colour of its items.           *)
(***************************************************************************)
EXTENDS Integers, Sequences, FiniteSets, TLC

VARIABLES
    minions,             \* MinionDetector.minions: id -> Minion record
    next_minion_id,      \* MinionDetector.next_minion_id
    current_time,        \* current_time of the last update_minion_tracking call
    detected_positions,  \* detected_positions of the last call
    similarity,          \* Minion.similarity results of the last call: id -> index -> value
    matched,             \* association of the last call: track id -> candidate index
    removed,             \* minions_to_remove of the last call
    cycles,              \* number of update_minion_tracking calls made
    drive,               \* environment: displacement and period of the unit being followed
    rx, ry, fw, fh,      \* ratio_to_pixels / pixels_to_ratio: the ratio pair and frame size
    pixels, ratios,      \* their results (<<>> until computed)
    pc,                  \* position of the conversion round trip
    update_queue,        \* GameOverlay.update_queue: the pending updates, oldest first
    show_debug,          \* GameOverlay.show_debug
    suggestion_circle,   \* canvas item of the suggestion: its state and centre
    debug_elements,      \* state of the canvas items in GameOverlay.debug_elements
    minion_markers,      \* GameOverlay._minion_markers: id -> canvas item
    put_count,           \* history: number of updates put on update_queue so far
    serials,             \* history: for each pending update, its rank among the puts
    handled,             \* history: the ranks of the updates processed, in order
    strategy_history,    \* StrategyAnalyzer.strategy_history: the strategy of each entry
    last_placement_time, \* StrategyAnalyzer.last_placement_time
    consecutive_same_strategy,  \* StrategyAnalyzer.consecutive_same_strategy
    current_strategy_type,      \* StrategyAnalyzer.current_strategy_type ("None" at first)
    now,                 \* time.time() at the last call of the analyzer
    enemy_minions,       \* enemy_minions of the last call of the analyzer
    last_call,           \* the method called last
    placement            \* what it returned

vars == <<minions, next_minion_id, current_time, detected_positions, similarity,
          matched, removed, cycles, drive, rx, ry, fw, fh, pixels, ratios, pc,
          update_queue, show_debug, suggestion_circle, debug_elements, minion_markers,
          put_count, serials, handled, strategy_history, last_placement_time,
          consecutive_same_strategy, current_strategy_type, now, enemy_minions,
          last_call, placement>>

trackingVars == <<minions, next_minion_id, current_time, detected_positions,
                  similarity, matched, removed, cycles, drive>>

convVars == <<rx, ry, fw, fh, pixels, ratios, pc>>

logVars == <<put_count, serials, handled>>

overlayVars == <<update_queue, show_debug, suggestion_circle, debug_elements,
                 minion_markers, logVars>>

strategyVars == <<strategy_history, last_placement_time, consecutive_same_strategy,
                  current_strategy_type, now, enemy_minions, last_call, placement>>

-----------------------------------------------------------------------------
(* Program constants (src/config.py unless noted), times in tenths of a second *)

Second == 10
frame_width == 1920
frame_height == 1080
PLAYER_SIDE == "left"
MOVEMENT_MEMORY == 50
REID_TOLERANCE == 80
REID_MAX_TIME == 100
HIST_SIMILARITY_THRESHOLD == 30
MIN_LIFETIME == 8
MIN_DISTANCE_TRAVELED == 40
MASS_SPAWN_THRESHOLD == 20
STATIONARY_THRESHOLD == 10
PREDICTION_TIME == 50
PREDICTION_TOLERANCE == 120
MIN_POINTS_FOR_PREDICTION == 5
maxlen == 80

None == <<>>
Some(b) == <<b>>

-----------------------------------------------------------------------------
(* Exact arithmetic standing for the floats *)

Abs(i) == IF i < 0 THEN -i ELSE i

RECURSIVE GCD(_, _)
GCD(a, b) == IF b = 0 THEN a ELSE GCD(b, a % b)

R(n, d) ==
    LET g == GCD(Abs(n), Abs(d))
        s == IF d < 0 THEN -1 ELSE 1
    IN  <<(s * n) \div g, (s * d) \div g>>

RAdd(p, q) ==
    LET l == (p[2] * q[2]) \div GCD(p[2], q[2])
    IN  R(p[1] * (l \div p[2]) + q[1] * (l \div q[2]), l)

RNeg(p) == <<-p[1], p[2]>>
RSub(p, q) == RAdd(p, RNeg(q))

RMul(p, q) ==
    LET a == R(p[1], q[2])
        b == R(q[1], p[2])
    IN  <<a[1] * b[1], a[2] * b[2]>>

RDivInt(p, i) == R(p[1], p[2] * i)
RLess(p, q) == p[1] * q[2] < q[1] * p[2]
RAbs(p) == <<Abs(p[1]), p[2]>>
\* mutant: the second value wins
RMax_Second(p, q) == q

RMax(p, q) == IF RLess(p, q) THEN q ELSE p
RMin(p, q) == IF RLess(q, p) THEN q ELSE p

RECURSIVE SqrtBetween(_, _, _)
SqrtBetween(n, lo, hi) ==
    IF lo = hi THEN lo
    ELSE LET mid == (lo + hi + 1) \div 2
         IN  IF mid * mid <= n THEN SqrtBetween(n, mid, hi)
             ELSE SqrtBetween(n, lo, mid - 1)

Hypot(dx, dy) == SqrtBetween(dx * dx + dy * dy, 0, 4096)

\* hypot(dx, dy) < r for rational dx, dy and an integer r
HypotBelow(dx, dy, r) ==
    IF dy[1] = 0 THEN RLess(RAbs(dx), <<r, 1>>)
    ELSE IF dx[1] = 0 THEN RLess(RAbs(dy), <<r, 1>>)
    ELSE RLess(RAdd(RMul(dx, dx), RMul(dy, dy)), <<r * r, 1>>)

Last(s) == s[Len(s)]
LastN(s, n) == IF Len(s) <= n THEN s ELSE SubSeq(s, Len(s) - n + 1, Len(s))

\* mutant: a history that is never trimmed
DequeAppend_Unbounded(d, e) == Append(d, e)

\* deque(maxlen=...).append: the oldest entry leaves when the deque is full
DequeAppend(d, e) == IF Len(d) >= maxlen THEN Append(Tail(d), e) ELSE Append(d, e)

-----------------------------------------------------------------------------
(* src/minion.py: class Minion *)

\* Minion.__init__ (the histogram is opaque, see the header)
Minion(id, position, timestamp) ==
    [ id |-> id,
      positions |-> <<position>>,
      timestamps |-> <<timestamp>>,
      creation_time |-> timestamp,
      last_seen |-> timestamp,
      active |-> TRUE,
      spawn_side |-> IF 2 * position[1] < frame_width THEN "left" ELSE "right",
      current_side |-> IF 2 * position[1] < frame_width THEN "left" ELSE "right",
      general_direction |-> "unknown",
      optimal_bridge |-> "unknown",
      total_distance_traveled |-> 0,
      original_classification |-> None,
      is_valid_minion |-> FALSE,
      consecutive_stationary_frames |-> 0,
      max_speed |-> <<0, 1>>,
      predicted_positions |-> <<>>,
      velocity |-> <<(<<0, 1>>), (<<0, 1>>)>>,
      acceleration |-> <<(<<0, 1>>), (<<0, 1>>)>> ]

\* mutant: a track of unknown direction is taken for an enemy
ClassifyFor_UnknownIsEnemy(player_side, direction) ==
    IF direction = "unknown" THEN TRUE
    ELSE IF player_side = "left" THEN direction = "right"
    ELSE direction = "left"

\* classify_as_enemy, its rule for a value of PLAYER_SIDE and of general_direction
ClassifyFor(player_side, direction) ==
    IF direction = "unknown" THEN FALSE
    ELSE IF player_side = "left" THEN direction = "right"
    ELSE direction = "left"

\* Minion.classify_as_enemy
classify_as_enemy(m) == ClassifyFor(PLAYER_SIDE, m.general_direction)

\* mutant: the direction is taken from four samples on
HasDirectionSamples_Four(m) == Len(m.positions) >= 4

\* calculate_direction_and_bridge, the guard of its early return
HasDirectionSamples(m) == Len(m.positions) >= 5

\* mutant: the sign of the horizontal movement read the wrong way round
DirectionOf_Reversed(m) ==
    LET horizontal_movement == Last(m.positions)[1] - m.positions[1][1]
    IN  IF Abs(horizontal_movement) > 50
        THEN (IF horizontal_movement > 0 THEN "left" ELSE "right")
        ELSE m.general_direction

\* calculate_direction_and_bridge, the direction: positions[0] against positions[-1]
DirectionOf(m) ==
    LET horizontal_movement == Last(m.positions)[1] - m.positions[1][1]
    IN  IF Abs(horizontal_movement) > 50
        THEN (IF horizontal_movement > 0 THEN "right" ELSE "left")
        ELSE m.general_direction

\* mutant: the classification follows the direction at every update
ClassificationOf_Always(m) ==
    IF m.general_direction # "unknown"
    THEN Some(classify_as_enemy(m))
    ELSE m.original_classification

\* calculate_direction_and_bridge, the classification made once (m has its new direction)
ClassificationOf(m) ==
    IF m.original_classification = None /\ m.general_direction # "unknown"
    THEN Some(classify_as_enemy(m))
    ELSE m.original_classification

\* mutant: no bridge is chosen in the central band
BridgeOf_Undecided(m) ==
    LET current_y == Last(m.positions)[2]
    IN  IF 100 * current_y < 35 * frame_height THEN "top"
        ELSE IF 100 * current_y > 65 * frame_height THEN "bottom"
        ELSE m.optimal_bridge

\* calculate_direction_and_bridge, the bridge from the vertical ratio and trend
BridgeOf(m) ==
    LET current_y == Last(m.positions)[2]
        vertical_trend == Last(m.positions)[2] - m.positions[1][2]
    IN  IF 100 * current_y < 35 * frame_height THEN "top"
        ELSE IF 100 * current_y > 65 * frame_height THEN "bottom"
        ELSE IF vertical_trend <= 0 THEN "top" ELSE "bottom"

\* Minion.calculate_direction_and_bridge
calculate_direction_and_bridge(m) ==
    IF ~HasDirectionSamples(m) THEN m
    ELSE LET m1 == [m EXCEPT !.general_direction = DirectionOf(m)]
             m2 == [m1 EXCEPT !.original_classification = ClassificationOf(m1)]
         IN  [m2 EXCEPT
                !.current_side =
                    IF 2 * Last(m.positions)[1] < frame_width THEN "left" ELSE "right",
                !.optimal_bridge = BridgeOf(m)]

\* calculate_prediction, the kinematic estimate over the last 10 samples:
\* <<velocity, acceleration>>, each kept when its time span is not positive
Kinematics(m) ==
    LET recent_positions == LastN(m.positions, 10)
        recent_timestamps == LastN(m.timestamps, 10)
        n == Len(recent_positions)
        time_span == recent_timestamps[n] - recent_timestamps[1]
        mid == (n \div 2) + 1
        time_span_1 == recent_timestamps[mid] - recent_timestamps[1]
        time_span_2 == recent_timestamps[n] - recent_timestamps[mid]
        vel(a, b, span, c) ==
            R((recent_positions[b][c] - recent_positions[a][c]) * Second, span)
        acc(c) ==
            RDivInt(RMul(RSub(vel(mid, n, time_span_2, c), vel(1, mid, time_span_1, c)),
                         <<Second, 1>>),
                    time_span_2)
    IN  IF n >= 3 /\ time_span > 0
        THEN << <<vel(1, n, time_span, 1), vel(1, n, time_span, 2)>>,
                IF n >= 6 /\ time_span_1 > 0 /\ time_span_2 > 0
                THEN <<acc(1), acc(2)>>
                ELSE m.acceleration >>
        ELSE <<m.velocity, m.acceleration>>

\* the kinematic equation p + v*dt + 0.5*a*dt*dt for dt tenths of a second
Extrapolate(p, v, a, dt) ==
    RAdd(RAdd(<<p, 1>>, RMul(v, R(dt, Second))),
         RMul(RMul(<<1, 2>>, a), R(dt * dt, Second * Second)))

\* mutant: the predicted point is stored as extrapolated
Clamp_Free(lo, hi, r) == r

\* calculate_prediction, max(lo, min(hi, r))
Clamp(lo, hi, r) == RMax(<<lo, 1>>, RMin(<<hi, 1>>, r))

\* calculate_prediction, the predicted points for dt in np.arange(0.1, PREDICTION_TIME, 0.1)
PredictedPoints(m, time) ==
    IF RLess(<<1, 1>>, RAbs(m.velocity[1])) \/ RLess(<<1, 1>>, RAbs(m.velocity[2]))
    THEN LET last_pos == Last(m.positions)
         IN  [dt \in 1 .. (PREDICTION_TIME - 1) |->
                <<Clamp(0, frame_width,
                        Extrapolate(last_pos[1], m.velocity[1], m.acceleration[1], dt)),
                  Clamp(0, frame_height,
                        Extrapolate(last_pos[2], m.velocity[2], m.acceleration[2], dt)),
                  time + dt>>]
    ELSE <<>>

\* Minion.calculate_prediction
calculate_prediction(m, time) ==
    IF Len(m.positions) < MIN_POINTS_FOR_PREDICTION THEN m
    ELSE LET k == Kinematics(m)
             m1 == [m EXCEPT !.velocity = k[1], !.acceleration = k[2]]
         IN  [m1 EXCEPT !.predicted_positions = PredictedPoints(m1, time)]

\* mutant: no fallback to the last position
get_predicted_position_at_time_NoFallback(m, target_time) ==
    IF m.predicted_positions = <<>> \/ Len(m.timestamps) < 2
    THEN None
    ELSE LET dt == target_time - Last(m.timestamps)
         IN  <<Extrapolate(Last(m.positions)[1], m.velocity[1], m.acceleration[1], dt),
               Extrapolate(Last(m.positions)[2], m.velocity[2], m.acceleration[2], dt)>>

\* Minion.get_predicted_position_at_time: None, or the pair of coordinates
get_predicted_position_at_time(m, target_time) ==
    IF m.predicted_positions = <<>> \/ Len(m.timestamps) < 2
    THEN IF Len(m.positions) > 0
         THEN <<(<<Last(m.positions)[1], 1>>), (<<Last(m.positions)[2], 1>>)>>
         ELSE None
    ELSE LET dt == target_time - Last(m.timestamps)
         IN  <<Extrapolate(Last(m.positions)[1], m.velocity[1], m.acceleration[1], dt),
               Extrapolate(Last(m.positions)[2], m.velocity[2], m.acceleration[2], dt)>>

\* mutant: the speed is not looked at
validate_as_minion_AnySpeed(m, time) ==
    [m EXCEPT !.is_valid_minion =
        /\ time - m.creation_time > MIN_LIFETIME
        /\ m.total_distance_traveled > MIN_DISTANCE_TRAVELED
        /\ m.consecutive_stationary_frames < 30]

\* Minion.validate_as_minion
validate_as_minion(m, time) ==
    [m EXCEPT !.is_valid_minion =
        /\ time - m.creation_time > MIN_LIFETIME
        /\ m.total_distance_traveled > MIN_DISTANCE_TRAVELED
        /\ m.consecutive_stationary_frames < 30
        /\ RLess(m.max_speed, <<200, 1>>)]

\* mutant: the signed horizontal displacement instead of the length of the step
StepDistance_Signed(m, position) == position[1] - Last(m.positions)[1]

\* update_position, the step distance np.hypot(position - positions[-1])
StepDistance(m, position) ==
    Hypot(position[1] - Last(m.positions)[1], position[2] - Last(m.positions)[2])

\* mutant: a step of exactly the threshold counts as stationary
MovementMetrics_AtMost(m, distance, time_diff) ==
    IF time_diff > 0
    THEN [m EXCEPT
            !.max_speed = RMax(m.max_speed, R(distance * Second, time_diff)),
            !.consecutive_stationary_frames =
                IF distance <= STATIONARY_THRESHOLD
                THEN m.consecutive_stationary_frames + 1 ELSE 0]
    ELSE m

\* update_position, the movement metrics taken when time_diff > 0
MovementMetrics(m, distance, time_diff) ==
    IF time_diff > 0
    THEN [m EXCEPT
            !.max_speed = RMax(m.max_speed, R(distance * Second, time_diff)),
            !.consecutive_stationary_frames =
                IF distance < STATIONARY_THRESHOLD
                THEN m.consecutive_stationary_frames + 1 ELSE 0]
    ELSE m

\* mutant: last_seen is left at its old value
RecordSample_Unseen(m, position, timestamp, distance) ==
    [m EXCEPT
        !.total_distance_traveled = m.total_distance_traveled + distance,
        !.positions = DequeAppend(m.positions, position),
        !.timestamps = DequeAppend(m.timestamps, timestamp),
        !.active = TRUE]

\* update_position, the recording of the sample
RecordSample(m, position, timestamp, distance) ==
    [m EXCEPT
        !.total_distance_traveled = m.total_distance_traveled + distance,
        !.positions = DequeAppend(m.positions, position),
        !.timestamps = DequeAppend(m.timestamps, timestamp),
        !.last_seen = timestamp,
        !.active = TRUE]

\* Minion.update_position
update_position(m, position, timestamp) ==
    LET distance == StepDistance(m, position)
        time_diff == timestamp - Last(m.timestamps)
        m1 == MovementMetrics(m, distance, time_diff)
        m2 == RecordSample(m1, position, timestamp, distance)
    IN  calculate_prediction(calculate_direction_and_bridge(m2), timestamp)

-----------------------------------------------------------------------------
(* src/detector.py: class MinionDetector.  A dict iterates in insertion     *)
(* order, and ids are inserted in increasing order: ascending id.           *)

Ids(ms) == DOMAIN ms

Min(S) == CHOOSE x \in S : \A y \in S : x <= y

\* mutant: the similarity floor is not applied
Eligible_NoFloor(distance2, sim, min_distance2, best_similarity) ==
    /\ distance2 < min_distance2
    /\ sim > best_similarity

\* _associate_detections_to_existing_minions, the eligibility of one candidate
\* against the best so far (distances in half pixels: distance *= 0.5 stays exact)
Eligible(distance2, sim, min_distance2, best_similarity) ==
    /\ distance2 < min_distance2
    /\ sim > HIST_SIMILARITY_THRESHOLD
    /\ sim > best_similarity

\* _associate_detections_to_existing_minions, the distance of candidate c from
\* track m, halved when c is near the predicted position (in half pixels)
MatchDistance2(m, c, time) ==
    LET distance == Hypot(Last(m.positions)[1] - c[1], Last(m.positions)[2] - c[2])
        predicted_pos == get_predicted_position_at_time(m, time)
    IN  IF /\ predicted_pos # None
           /\ HypotBelow(RSub(predicted_pos[1], <<c[1], 1>>),
                         RSub(predicted_pos[2], <<c[2], 1>>), PREDICTION_TOLERANCE)
        THEN distance
        ELSE 2 * distance

\* _associate_detections_to_existing_minions, the inner loop from candidate i on:
\* best = <<best_match_idx, min_distance (half pixels), best_similarity>>, idx 0 for -1
RECURSIVE BestMatch(_, _, _, _, _, _, _)
BestMatch(m, cands, used, sims, time, i, best) ==
    IF i > Len(cands) THEN best
    ELSE IF i \in used THEN BestMatch(m, cands, used, sims, time, i + 1, best)
    ELSE LET d2 == MatchDistance2(m, cands[i], time)
         IN  IF Eligible(d2, sims[i], best[2], best[3])
             THEN BestMatch(m, cands, used, sims, time, i + 1, <<i, d2, sims[i]>>)
             ELSE BestMatch(m, cands, used, sims, time, i + 1, best)

\* _associate_detections_to_existing_minions, the outer loop over the tracks todo:
\* st = [minions, used, matched]
RECURSIVE Associate(_, _, _, _, _)
Associate(st, todo, cands, sim, time) ==
    IF todo = {} THEN st
    ELSE LET id == Min(todo)
             m == st.minions[id]
             best == IF m.active
                     THEN BestMatch(m, cands, st.used, sim[id], time, 1,
                                    <<0, 2 * REID_TOLERANCE, 0>>)
                     ELSE <<0, 0, 0>>
             st1 == IF best[1] # 0
                    THEN [ minions |-> [st.minions EXCEPT
                                          ![id] = update_position(m, cands[best[1]], time)],
                           used |-> st.used \cup {best[1]},
                           matched |-> st.matched @@ (id :> best[1]) ]
                    ELSE st
         IN  Associate(st1, todo \ {id}, cands, sim, time)

\* mutant: the threshold is compared one too high
is_mass_spawn_event_OffByOne(cands) == Len(cands) > MASS_SPAWN_THRESHOLD + 1

\* MinionDetector._is_mass_spawn_event
is_mass_spawn_event(cands) == Len(cands) > MASS_SPAWN_THRESHOLD

\* _create_new_minions, the id given to a new track
NewId(next) == next

\* mutant: the counter is not advanced
NextIdAfter_Same(next) == next

\* _create_new_minions, the counter after a new track
NextIdAfter(next) == next + 1

\* mutant: associated candidates are not told from the others
Unused_Any(i, used) == TRUE

\* _create_new_minions, the test "i not in used_detections"
Unused(i, used) == i \notin used

\* MinionDetector._create_new_minions, from candidate i on: st = [minions, next]
RECURSIVE create_new_minions(_, _, _, _, _)
create_new_minions(st, cands, used, time, i) ==
    IF i > Len(cands) THEN st
    ELSE IF ~Unused(i, used) \/ is_mass_spawn_event(cands)
    THEN create_new_minions(st, cands, used, time, i + 1)
    ELSE create_new_minions(
            [ minions |-> (NewId(st.next) :> Minion(NewId(st.next), cands[i], time))
                            @@ st.minions,
              next |-> NextIdAfter(st.next) ],
            cands, used, time, i + 1)

\* mutant: the memory window confused with the eviction window
Stale_Late(m, time) == time - m.last_seen > REID_MAX_TIME

\* _update_minion_status, the two ageing tests
Stale(m, time) == time - m.last_seen > MOVEMENT_MEMORY

\* mutant: no track is ever old enough to be removed
Expired_Never(m, time) == FALSE

Expired(m, time) == time - m.last_seen > REID_MAX_TIME

\* mutant: a track that goes inactive loses its predicted path
AgedMinions_Forgetful(ms, time) ==
    [id \in Ids(ms) |->
        validate_as_minion(
            IF Stale(ms[id], time)
            THEN [ms[id] EXCEPT !.active = FALSE, !.predicted_positions = <<>>]
            ELSE ms[id],
            time)]

\* _update_minion_status, the first loop: the flags of every track
AgedMinions(ms, time) ==
    [id \in Ids(ms) |->
        validate_as_minion(
            IF Stale(ms[id], time) THEN [ms[id] EXCEPT !.active = FALSE] ELSE ms[id],
            time)]

\* _update_minion_status, the ids it collects for removal
minions_to_remove(ms, time) == {id \in Ids(ms) : Expired(ms[id], time)}

\* MinionDetector._update_minion_status
update_minion_status(ms, time) ==
    LET aged == AgedMinions(ms, time)
    IN  [id \in Ids(ms) \ minions_to_remove(ms, time) |-> aged[id]]

\* MinionDetector.get_active_minions (as the set of their ids)
get_active_minions == {id \in Ids(minions) : minions[id].is_valid_minion /\ minions[id].active}

\* mutant: allegiance recomputed from the present direction
get_strategy_info_Recomputed(m) ==
    IF ~m.is_valid_minion THEN None
    ELSE Some([ likely_enemy |-> classify_as_enemy(m),
                direction |-> m.general_direction,
                optimal_bridge |-> m.optimal_bridge,
                current_side |-> m.current_side,
                velocity |-> m.velocity,
                predicted_positions |-> m.predicted_positions ])

\* Minion.get_strategy_info: None, or Some(the dict)
get_strategy_info(m) ==
    IF ~m.is_valid_minion THEN None
    ELSE Some([ likely_enemy |-> IF m.original_classification # None
                                 THEN m.original_classification[1]
                                 ELSE classify_as_enemy(m),
                direction |-> m.general_direction,
                optimal_bridge |-> m.optimal_bridge,
                current_side |-> m.current_side,
                velocity |-> m.velocity,
                predicted_positions |-> m.predicted_positions ])

\* MinionDetector.get_enemy_minions (as the set of their ids)
get_enemy_minions ==
    {id \in get_active_minions :
        LET strategy_info == get_strategy_info(minions[id])
        IN  strategy_info # None /\ strategy_info[1].likely_enemy}

\* MinionDetector.update_minion_tracking
update_minion_tracking(cands, sim, time) ==
    \E a \in {Associate([minions |-> minions, used |-> {}, matched |-> <<>>],
                       Ids(minions), cands, sim, time)} :
    \E c \in {create_new_minions([minions |-> a.minions, next |-> next_minion_id],
                                cands, a.used, time, 1)} :
        /\ minions' = update_minion_status(c.minions, time)
        /\ next_minion_id' = c.next
        /\ matched' = a.matched
        /\ removed' = minions_to_remove(c.minions, time)
        /\ current_time' = time
        /\ detected_positions' = cands
        /\ similarity' = sim
        /\ cycles' = cycles + 1

-----------------------------------------------------------------------------
(* src/utils.py: the conversions between ratios and pixels *)

\* mutant: rounding to the nearest integer
Trunc_Nearest(r) == (2 * r[1] + r[2]) \div (2 * r[2])

\* int(x) of a rational: truncation towards zero
Trunc(r) == IF r[1] >= 0 THEN r[1] \div r[2] ELSE 0 - ((0 - r[1]) \div r[2])

\* ratio_to_pixels
ratio_to_pixels(ratio_list, w, h) ==
    [i \in DOMAIN ratio_list |->
        <<Trunc(RMul(ratio_list[i][1], <<w, 1>>)),
          Trunc(RMul(ratio_list[i][2], <<h, 1>>))>>]

\* pixels_to_ratio
pixels_to_ratio(pixel_list, w, h) ==
    [i \in DOMAIN pixel_list |-> <<R(pixel_list[i][1], w), R(pixel_list[i][2], h)>>]

-----------------------------------------------------------------------------
(* src/overlay.py: class GameOverlay.  The producers run on the thread of   *)
(* the tracking core, _process_updates on the overlay thread: each put and  *)
(* each get_nowait is one step.                                             *)

\* the maxsize of queue.Queue(): none is given, and 0 stands for no limit
queue_maxsize == 0

\* queue.Queue.full
Full(q) == queue_maxsize > 0 /\ Len(q) >= queue_maxsize

\* update_queue.put(item, block=False) inside try / except queue.Full: pass
put(q, item) == IF Full(q) THEN q ELSE Append(q, item)

\* GameOverlay.update_suggestion
update_suggestion(position) ==
    /\ update_queue' = put(update_queue, [type |-> "suggestion", data |-> position])
    /\ UNCHANGED <<show_debug, suggestion_circle, debug_elements, minion_markers>>

\* GameOverlay.toggle_debug_mode
toggle_debug_mode ==
    /\ show_debug' = ~show_debug
    /\ update_queue' = put(update_queue, [type |-> "debug_toggle", data |-> ~show_debug])
    /\ UNCHANGED <<suggestion_circle, debug_elements, minion_markers>>

\* GameOverlay.add_minion_marker
add_minion_marker(minion_id, position, is_enemy, is_predicted) ==
    /\ update_queue' =
        IF ~show_debug THEN update_queue
        ELSE put(update_queue,
                 [type |-> "minion_marker",
                  data |-> [id |-> minion_id, position |-> position,
                            is_enemy |-> is_enemy, is_predicted |-> is_predicted]])
    /\ UNCHANGED <<show_debug, suggestion_circle, debug_elements, minion_markers>>

\* GameOverlay.clear_minion_markers
clear_minion_markers ==
    /\ update_queue' = put(update_queue, [type |-> "clear_markers", data |-> None])
    /\ UNCHANGED <<show_debug, suggestion_circle, debug_elements, minion_markers>>

\* a sequence without its i-th entry
Remove(q, i) == SubSeq(q, 1, i - 1) \o SubSeq(q, i + 1, Len(q))

\* mutant: the newest pending update is taken
get_nowait_Newest(q) == Len(q)

\* update_queue.get_nowait of a non-empty queue.Queue (first in, first out): the
\* place of the item it takes
get_nowait(q) == 1

\* GameOverlay._update_suggestion_display
update_suggestion_display(position) ==
    IF position = None THEN [suggestion_circle EXCEPT !.state = "hidden"]
    ELSE [state |-> "normal", centre |-> position]

\* GameOverlay._toggle_debug_display
toggle_debug_display(show) == IF show THEN "normal" ELSE "hidden"

\* GameOverlay._add_minion_marker_display: the marker replaces that of the same id
add_minion_marker_display(marker_data) ==
    (marker_data.id :>
        [ color |-> IF marker_data.is_predicted THEN "yellow"
                    ELSE IF marker_data.is_enemy THEN "red" ELSE "cyan",
          centre |-> marker_data.position,
          state |-> IF show_debug THEN "normal" ELSE "hidden" ])
    @@ minion_markers

\* GameOverlay._process_updates, one turn of its loop: get_nowait and the
\* handler of the update (the loop ends on queue.Empty)
process_updates ==
    /\ update_queue # <<>>
    /\ update_queue' = Remove(update_queue, get_nowait(update_queue))
    /\ LET update_type == update_queue[get_nowait(update_queue)].type
           data == update_queue[get_nowait(update_queue)].data
       IN  /\ suggestion_circle' =
                IF update_type = "suggestion" THEN update_suggestion_display(data)
                ELSE suggestion_circle
           /\ debug_elements' =
                IF update_type = "debug_toggle" THEN toggle_debug_display(data)
                ELSE debug_elements
           /\ minion_markers' =
                IF update_type = "minion_marker" THEN add_minion_marker_display(data)
                ELSE IF update_type = "clear_markers" THEN <<>>
                ELSE minion_markers
    /\ UNCHANGED show_debug

-----------------------------------------------------------------------------
(* src/strategy.py: class StrategyAnalyzer.  random.choice and               *)
(* random.random are choices of the environment: a selector is the set of   *)
(* the positions it can return.  An entry of strategy_history is kept as    *)
(* its strategy.                                                            *)

SAFE_ZONE_THRESHOLD == 2
PLACEMENT_PREDICTION_TIME == 15
PLACEMENT_OFFSET_X == 50

DEFENSIVE_POSITIONS_RATIOS ==
    << <<R(1021, 10000), R(412, 1000)>>, <<R(1432, 10000), R(1731, 10000)>> >>

OFFENSIVE_POSITIONS_RATIOS ==
    << <<R(2, 10), R(163, 1000)>>, <<R(2057, 10000), R(2787, 10000)>> >>

CENTRAL_POSITIONS_RATIOS ==
    << <<R(1729, 10000), R(4176, 10000)>>, <<R(2927, 10000), R(1481, 10000)>>,
       <<R(2807, 10000), R(4491, 10000)>> >>

\* StrategyAnalyzer.__init__
defensive_positions ==
    ratio_to_pixels(DEFENSIVE_POSITIONS_RATIOS, frame_width, frame_height)

offensive_positions ==
    ratio_to_pixels(OFFENSIVE_POSITIONS_RATIOS, frame_width, frame_height)

central_positions ==
    ratio_to_pixels(CENTRAL_POSITIONS_RATIOS, frame_width, frame_height)

\* random.choice(s): any element of s
random_choice(s) == {s[i] : i \in DOMAIN s}

RECURSIVE RSum(_)
\* sum(...) of a sequence of rationals
RSum(s) == IF s = <<>> THEN <<0, 1>> ELSE RAdd(s[1], RSum(Tail(s)))

\* min(s, key=...), keys[i] being the key of s[i]: the first element of s
\* with the least key
MinBy(s, keys) ==
    s[CHOOSE i \in DOMAIN s :
        /\ \A j \in DOMAIN s : ~RLess(keys[j], keys[i])
        /\ \A j \in 1 .. (i - 1) : RLess(keys[i], keys[j])]

RECURSIVE SortedByY(_, _)
\* sorted(s, key=lambda pos: pos[1], reverse=reverse): stable in both orders
SortedByY(s, reverse) ==
    IF s = <<>> THEN <<>>
    ELSE LET e == Last(s)
             front == SortedByY(SubSeq(s, 1, Len(s) - 1), reverse)
             k == Cardinality({i \in DOMAIN front :
                                 IF reverse THEN front[i][2] >= e[2]
                                 ELSE front[i][2] <= e[2]})
         IN  SubSeq(front, 1, k) \o <<e>> \o SubSeq(front, k + 1, Len(front))

\* StrategyAnalyzer.analyze_threat_distribution (threat_clusters stays empty)
analyze_threat_distribution(enemies) ==
    LET seen == SelectSeq(enemies, LAMBDA m : Len(m.positions) > 0)
        xs == [i \in DOMAIN seen |-> Last(seen[i].positions)[1]]
        ys == [i \in DOMAIN seen |-> Last(seen[i].positions)[2]]
        left == {i \in DOMAIN xs : 10 * xs[i] < 4 * frame_width}
        right == {i \in DOMAIN xs : 10 * xs[i] > 6 * frame_width} \ left
        top == {i \in DOMAIN ys : 100 * ys[i] < 35 * frame_height}
        bottom == {i \in DOMAIN ys : 100 * ys[i] > 65 * frame_height} \ top
    IN  [ left_threat |-> Cardinality(left),
          right_threat |-> Cardinality(right),
          center_threat |-> Len(seen) - Cardinality(left) - Cardinality(right),
          top_threat |-> Cardinality(top),
          bottom_threat |-> Cardinality(bottom),
          total_enemies |-> Len(enemies),
          average_position |->
              IF enemies = <<>> THEN None
              ELSE <<RDivInt(RSum([i \in DOMAIN xs |-> <<xs[i], 1>>]), Len(enemies)),
                     RDivInt(RSum([i \in DOMAIN ys |-> <<ys[i], 1>>]), Len(enemies))>> ]

\* StrategyAnalyzer._adaptive_strategy
adaptive_strategy(threat_analysis) ==
    IF consecutive_same_strategy >= 3
       /\ current_strategy_type \in {"defensive", "offensive"}
    THEN "central"
    ELSE IF threat_analysis.average_position # None
    THEN LET avg_x == threat_analysis.average_position[1]
             center_x == R(frame_width, 2)
         IN  IF PLAYER_SIDE = "left"
             THEN IF RLess(avg_x, center_x) THEN "defensive" ELSE "offensive"
             ELSE IF RLess(center_x, avg_x) THEN "defensive" ELSE "offensive"
    ELSE "central"

\* StrategyAnalyzer._determine_strategy_type
determine_strategy_type(threat_analysis) ==
    LET near == IF PLAYER_SIDE = "left" THEN threat_analysis.left_threat
                ELSE threat_analysis.right_threat
        far == IF PLAYER_SIDE = "left" THEN threat_analysis.right_threat
               ELSE threat_analysis.left_threat
    IN  IF near >= SAFE_ZONE_THRESHOLD THEN "defensive"
        ELSE IF far = 0 /\ threat_analysis.total_enemies > 0 THEN "offensive"
        ELSE IF threat_analysis.total_enemies >= 4 THEN "central"
        ELSE adaptive_strategy(threat_analysis)

\* StrategyAnalyzer._select_defensive_position
select_defensive_position(threat_analysis) ==
    LET defensive_positions_sorted ==
            SortedByY(defensive_positions,
                      ~(threat_analysis.top_threat > threat_analysis.bottom_threat))
    IN  (IF Len(defensive_positions_sorted) > 1
         THEN random_choice(SubSeq(defensive_positions_sorted, 1, 2))
         ELSE {})
        \union {defensive_positions_sorted[1]}

\* StrategyAnalyzer._select_offensive_position
select_offensive_position(threat_analysis) ==
    IF threat_analysis.average_position # None
    THEN LET avg_y == threat_analysis.average_position[2]
             mid_y == R(frame_height, 2)
         IN  IF RLess(avg_y, mid_y)
             THEN {MinBy(offensive_positions,
                         [i \in DOMAIN offensive_positions |->
                             <<0 - offensive_positions[i][2], 1>>])}
             ELSE {MinBy(offensive_positions,
                         [i \in DOMAIN offensive_positions |->
                             <<offensive_positions[i][2], 1>>])}
    ELSE random_choice(offensive_positions)

\* StrategyAnalyzer._select_central_position
select_central_position(threat_analysis) ==
    IF threat_analysis.average_position # None
    THEN LET avg_x == threat_analysis.average_position[1]
             avg_y == threat_analysis.average_position[2]
         IN  {MinBy(central_positions,
                    [i \in DOMAIN central_positions |->
                        RAdd(RAbs(RSub(<<central_positions[i][1], 1>>, RDivInt(avg_x, 2))),
                             RAbs(RSub(<<central_positions[i][2], 1>>, avg_y)))])}
    ELSE random_choice(central_positions)

\* StrategyAnalyzer._select_position_by_strategy
select_position_by_strategy(strategy_type, threat_analysis) ==
    IF strategy_type = "defensive" THEN select_defensive_position(threat_analysis)
    ELSE IF strategy_type = "offensive" THEN select_offensive_position(threat_analysis)
    ELSE IF strategy_type = "central" THEN select_central_position(threat_analysis)
    ELSE random_choice(central_positions)

\* StrategyAnalyzer._get_default_placement, time.time() being time
get_default_placement(time) ==
    IF time - last_placement_time > 5 * Second
    THEN random_choice(offensive_positions)
    ELSE random_choice(central_positions)

\* StrategyAnalyzer._update_strategy_history
update_strategy_history(strategy_type, time) ==
    /\ strategy_history' = LastN(Append(strategy_history, strategy_type), 20)
    /\ IF strategy_type = current_strategy_type
       THEN /\ consecutive_same_strategy' = consecutive_same_strategy + 1
            /\ UNCHANGED current_strategy_type
       ELSE /\ consecutive_same_strategy' = 1
            /\ current_strategy_type' = strategy_type
    /\ last_placement_time' = time

\* StrategyAnalyzer.calculate_optimal_placement
calculate_optimal_placement(enemies, time) ==
    IF enemies = <<>>
    THEN /\ placement' \in get_default_placement(time)
         /\ UNCHANGED <<strategy_history, last_placement_time,
                        consecutive_same_strategy, current_strategy_type>>
    ELSE \E threat_analysis \in {analyze_threat_distribution(enemies)} :
           \E strategy_type \in {determine_strategy_type(threat_analysis)} :
              /\ placement' \in select_position_by_strategy(strategy_type, threat_analysis)
              /\ update_strategy_history(strategy_type, time)

\* get_predictive_placement, the interception point
Intercept(future_positions) ==
    LET n == Len(future_positions)
        avg_future_x == RDivInt(RSum([i \in 1 .. n |-> future_positions[i][1]]), n)
        avg_future_y == RDivInt(RSum([i \in 1 .. n |-> future_positions[i][2]]), n)
    IN  <<IF PLAYER_SIDE = "left"
          THEN RMax(<<0, 1>>, RSub(avg_future_x, <<PLACEMENT_OFFSET_X, 1>>))
          ELSE RMin(<<frame_width, 1>>, RAdd(avg_future_x, <<PLACEMENT_OFFSET_X, 1>>)),
          avg_future_y>>

\* mutant: the interception point itself is the placement
NearestPosition_Intercept(all_positions, intercept) ==
    <<Trunc(intercept[1]), Trunc(intercept[2])>>

\* get_predictive_placement, min(all_positions, key=distance_2d(pos, intercept)):
\* the distances are compared by their squares
NearestPosition(all_positions, intercept) ==
    MinBy(all_positions,
          [i \in DOMAIN all_positions |->
              LET dx == RSub(<<all_positions[i][1], 1>>, intercept[1])
                  dy == RSub(<<all_positions[i][2], 1>>, intercept[2])
              IN  RAdd(RMul(dx, dx), RMul(dy, dy))])

\* get_predictive_placement, the predictions kept in future_positions
FuturePositions(enemies, target_time) ==
    SelectSeq([i \in DOMAIN enemies |->
                  get_predicted_position_at_time(enemies[i], target_time)],
              LAMBDA pred_pos : pred_pos # None)

\* StrategyAnalyzer.get_predictive_placement with the default prediction_time
get_predictive_placement(enemies, time) ==
    IF enemies = <<>>
    THEN /\ placement' = None
         /\ UNCHANGED <<strategy_history, last_placement_time,
                        consecutive_same_strategy, current_strategy_type>>
    ELSE \E future_positions \in
                {FuturePositions(enemies, time + PLACEMENT_PREDICTION_TIME)} :
           IF future_positions = <<>>
           THEN calculate_optimal_placement(enemies, time)
           ELSE \E intercept \in {Intercept(future_positions)} :
                  /\ placement' =
                        NearestPosition(defensive_positions \o offensive_positions
                                            \o central_positions,
                                        intercept)
                  /\ UNCHANGED <<strategy_history, last_placement_time,
                                 consecutive_same_strategy, current_strategy_type>>

-----------------------------------------------------------------------------
(* Bounds and inputs *)

MaxCycles == 4        \* Spec: update_minion_tracking calls
MaxSpawnCycles == 4   \* SpecSpawn: update_minion_tracking calls
MaxAssocCycles == 3   \* SpecAssoc: update_minion_tracking calls
MaxSamples == 84      \* SpecTrack: cycles run on the followed unit
FreeLen == 1          \* SpecTrack: the unit may change its drive before each of the first cycles,
FirstTurn == 5        \* before this one,
TurnEvery == 40       \* and before every TurnEvery-th one
RatioDen == 8         \* SpecConv: the ratios are the multiples of 1/RatioDen in [0, 1]
MaxPending == 3       \* SpecOverlay: updates pending when the core stops producing
MaxReidCycles == 3    \* SpecReid: update_minion_tracking calls
MaxSteps == 6         \* SpecStep: update_minion_tracking calls
MaxConsumeCycles == 2 \* SpecConsume: update_minion_tracking calls
MaxLive == 2          \* SpecConsume: live tracks when a cycle starts
MaxUpdates == 3       \* SpecDelivery: updates put on the queue
SightUntil == 100     \* SpecEvict: no detection comes in a cycle begun at this time or later
MinGap == 30          \* SpecEvict: the shortest time between two cycles
Epoch == 1000         \* SpecStrategy: time.time() when the analyzer is built
Watch == 160          \* SpecStrategy: the analyzer is called for this long

PointA == <<100, 500>>
PointB == <<160, 500>>
Points == {<<100, 500>>, <<115, 500>>, <<130, 500>>}
SimSet == {20, 30, 60}

\* a burst of n detections, 15 px apart on the line of Points
Burst(n) == [i \in 1 .. n |-> <<100 + 15 * (i - 1), 500>>]

ActiveIds == {id \in Ids(minions) : minions[id].active}

\* similarity inputs: one value for every active track and every candidate
UniformSims(cands, values) ==
    IF cands = <<>> \/ ActiveIds = {} THEN {<<>>}
    ELSE {[id \in ActiveIds |-> [i \in 1 .. Len(cands) |-> v]] : v \in values}

\* similarity inputs: one value per active track, the same for every candidate
TrackSims(cands, values) ==
    IF cands = <<>> \/ ActiveIds = {} THEN {<<>>}
    ELSE {[id \in ActiveIds |-> [i \in 1 .. Len(cands) |-> v[id]]] :
            v \in [ActiveIds -> values]}

\* similarity inputs: one value per candidate, the same for every track (what
\* Minion.similarity would return, whether or not the manager asks for it)
CandSims(cands, values) ==
    IF Ids(minions) = {} THEN {<<>>}
    ELSE {[id \in Ids(minions) |-> s] : s \in [1 .. Len(cands) -> values]}

\* candidates near PointA and one beyond the re-identification tolerance
ReidPoints == {<<110, 500>>, <<120, 500>>, <<200, 500>>}

\* the lists of at most two distinct candidates, in either order
ReidLists ==
    {<<>>} \cup {<<p>> : p \in ReidPoints}
           \cup {pq \in ReidPoints \X ReidPoints : pq[1] # pq[2]}

\* where the unit of SpecStep appears: just left of the midline near the top
\* band, or at PointA in the central band
StartPoints == {<<950, 370>>, PointA}

\* the steps of the unit of SpecStep, <<dx, dy, time since the last cycle>>: a
\* step of exactly STATIONARY_THRESHOLD, a shorter one, a shorter one carrying
\* the timestamp of the last cycle again, and a long slow one downwards
Steps ==
    { <<STATIONARY_THRESHOLD, 0, 2>>, <<5, 0, 2>>, <<5, 0, 0>>, <<0, 60, 5>> }

\* candidate lists of SpecConsume: none, one, the same point twice, two points,
\* the largest list that is not a mass spawn, and the smallest that is one
ConsumeLists ==
    { <<>>, <<PointA>>, <<PointA, PointA>>, Burst(2), Burst(MASS_SPAWN_THRESHOLD),
      Burst(MASS_SPAWN_THRESHOLD + 1) }

\* the drives of the followed unit: <<dx per cycle, cycle period, detected or not>>
Drives ==
    { <<20, 2, TRUE>>, <<0 - 20, 2, TRUE>>, <<0, 2, TRUE>>, <<75, 5, TRUE>>,
      <<45, 2, TRUE>>, <<0, 26, FALSE>> }

-----------------------------------------------------------------------------
(* Specifications *)

InitConv ==
    /\ rx = <<0, 1>> /\ ry = <<0, 1>> /\ fw = 1 /\ fh = 1
    /\ pixels = <<>> /\ ratios = <<>> /\ pc = "idle"

InitTracking ==
    /\ minions = <<>>
    /\ next_minion_id = 1
    /\ current_time = 0
    /\ detected_positions = <<>>
    /\ similarity = <<>>
    /\ matched = <<>>
    /\ removed = {}
    /\ cycles = 0
    /\ drive = <<0, 0, TRUE>>

\* the state after GameOverlay.__init__ and setup_window: nothing pending,
\* every canvas item hidden
InitOverlay ==
    /\ update_queue = <<>>
    /\ show_debug = FALSE
    /\ suggestion_circle = [state |-> "hidden", centre |-> <<0, 0>>]
    /\ debug_elements = "hidden"
    /\ minion_markers = <<>>
    /\ put_count = 0
    /\ serials = <<>>
    /\ handled = <<>>

\* the state after StrategyAnalyzer.__init__, before any call
InitStrategy ==
    /\ strategy_history = <<>>
    /\ last_placement_time = 0
    /\ consecutive_same_strategy = 0
    /\ current_strategy_type = "None"
    /\ now = Epoch
    /\ enemy_minions = <<>>
    /\ last_call = "none"
    /\ placement = None

\* the state after MinionDetector.__init__
Init == InitTracking /\ InitConv /\ InitOverlay /\ InitStrategy

\* Spec: cycles a memory window or more apart, with no detection or one at PointA
\* or PointB
Cycle ==
    /\ cycles < MaxCycles
    /\ \E cands \in {<<>>, <<PointA>>, <<PointB>>},
            dt \in {MOVEMENT_MEMORY, MOVEMENT_MEMORY + 1, REID_MAX_TIME + 1} :
         \E sim \in UniformSims(cands, {20, 60}) :
            update_minion_tracking(cands, sim, current_time + dt)
    /\ UNCHANGED <<drive, convVars, overlayVars, strategyVars>>

Next == Cycle

Spec == Init /\ [][Next]_vars

\* SpecSpawn: cycles a tenth of a second apart, some of them bursts of detections
SpawnCycle ==
    /\ cycles < MaxSpawnCycles
    /\ \E cands \in {<<>>, <<PointA>>, Burst(MASS_SPAWN_THRESHOLD + 1),
                     Burst(MASS_SPAWN_THRESHOLD + 5)} :
         \E sim \in UniformSims(cands, {20, 60}) :
            update_minion_tracking(cands, sim, current_time + 1)
    /\ UNCHANGED <<drive, convVars, overlayVars, strategyVars>>

NextSpawn == SpawnCycle

SpecSpawn == Init /\ [][NextSpawn]_vars

\* SpecAssoc: cycles with at most one detection among Points, any similarities
AssocCycle ==
    /\ cycles < MaxAssocCycles
    /\ \E cands \in {<<>>} \cup {<<p>> : p \in Points} :
         \E sim \in TrackSims(cands, SimSet) :
            update_minion_tracking(cands, sim, current_time + 1)
    /\ UNCHANGED <<drive, convVars, overlayVars, strategyVars>>

NextAssoc == AssocCycle

SpecAssoc == Init /\ [][NextAssoc]_vars

\* SpecTrack, the first cycle at time 0: one detection at PointA, which becomes track 1
Spawn ==
    /\ cycles = 0
    /\ update_minion_tracking(<<PointA>>, <<>>, 0)
    /\ drive' = <<0, 0, TRUE>>
    /\ UNCHANGED <<convVars, overlayVars, strategyVars>>

CanTurn == cycles <= FreeLen \/ cycles = FirstTurn \/ cycles % TurnEvery = 0

\* SpecTrack, a later cycle: the unit has moved by its drive and, unless it is
\* hidden, is detected there, looking like track 1
Follow ==
    /\ cycles > 0 /\ cycles < MaxSamples
    /\ 1 \in Ids(minions)
    /\ \E d \in Drives :
        LET p == <<Last(minions[1].positions)[1] + d[1], Last(minions[1].positions)[2]>>
        IN  /\ d = drive \/ CanTurn
            /\ p[1] >= 0 /\ p[1] <= frame_width
            /\ update_minion_tracking(IF d[3] THEN <<p>> ELSE <<>>,
                                      IF d[3] THEN [id \in ActiveIds |-> <<90>>] ELSE <<>>,
                                      current_time + d[2])
            /\ drive' = d
    /\ next_minion_id' <= 2
    /\ UNCHANGED <<convVars, overlayVars, strategyVars>>

NextTrack == Spawn \/ Follow

SpecTrack == Init /\ [][NextTrack]_vars

\* SpecReid: after the first cycle of SpecTrack, cycles with at most two
\* detections in either order, a tenth of a second or just over a memory window
\* after the last one
ReidCycle ==
    /\ cycles > 0 /\ cycles < MaxReidCycles
    /\ \E cands \in ReidLists, dt \in {1, MOVEMENT_MEMORY + 1} :
         \E sim \in CandSims(cands, {50, 90}) :
            update_minion_tracking(cands, sim, current_time + dt)
    /\ UNCHANGED <<drive, convVars, overlayVars, strategyVars>>

NextReid == Spawn \/ ReidCycle

SpecReid == Init /\ [][NextReid]_vars

\* SpecStep, the first cycle at time 0: one detection, which becomes track 1
SpawnAt ==
    /\ cycles = 0
    /\ \E p \in StartPoints : update_minion_tracking(<<p>>, <<>>, 0)
    /\ UNCHANGED <<drive, convVars, overlayVars, strategyVars>>

\* SpecStep, a later cycle: the unit has made one of Steps and is detected
\* there, looking like track 1
Step ==
    /\ cycles > 0 /\ cycles < MaxSteps
    /\ 1 \in Ids(minions)
    /\ \E st \in Steps :
        LET p == <<Last(minions[1].positions)[1] + st[1],
                   Last(minions[1].positions)[2] + st[2]>>
        IN  update_minion_tracking(<<p>>, [id \in Ids(minions) |-> <<90>>],
                                   current_time + st[3])
    /\ next_minion_id' <= 2
    /\ UNCHANGED <<drive, convVars, overlayVars, strategyVars>>

NextStep == SpawnAt \/ Step

SpecStep == Init /\ [][NextStep]_vars

\* SpecConsume: cycles a tenth of a second or just over a memory window apart,
\* with candidate lists up to the mass-spawn threshold and one beyond it, run
\* while at most MaxLive tracks are live
ConsumeCycle ==
    /\ cycles < MaxConsumeCycles
    /\ Cardinality(Ids(minions)) <= MaxLive
    /\ \E cands \in ConsumeLists, dt \in {1, MOVEMENT_MEMORY + 1} :
         \E sim \in UniformSims(cands, {20, 60}) :
            update_minion_tracking(cands, sim, current_time + dt)
    /\ UNCHANGED <<drive, convVars, overlayVars, strategyVars>>

NextConsume == ConsumeCycle

SpecConsume == Init /\ [][NextConsume]_vars

\* SpecEvict: after the first cycle of SpecTrack the cycles keep running, MinGap
\* or more apart, as long as a track is live or a detection may still come; a
\* unit shows at PointA in some of the cycles begun before SightUntil.  Every
\* track is gone before Horizon, however the cycles are spaced.
Horizon == SightUntil + 3 * (REID_MAX_TIME + 1)

EvictCycle ==
    /\ cycles > 0
    /\ current_time < Horizon
    /\ Ids(minions) # {} \/ current_time < SightUntil
    /\ \E cands \in {<<>>, <<PointA>>}, dt \in {MinGap, MOVEMENT_MEMORY + 1, REID_MAX_TIME + 1} :
        /\ cands # <<>> => current_time < SightUntil
        /\ \E sim \in UniformSims(cands, {60}) :
                update_minion_tracking(cands, sim, current_time + dt)
    /\ UNCHANGED <<drive, convVars, overlayVars, strategyVars>>

NextEvict == Spawn \/ EvictCycle

\* process_frame is called again and again by the main loop
SpecEvict == Init /\ [][NextEvict]_vars /\ WF_vars(NextEvict)

\* SpecConv: a ratio pair of [0,1] x [0,1] and a positive frame size
RatioSet == {R(i, RatioDen) : i \in 0 .. RatioDen}
WidthSet == {1, 7, frame_width}
HeightSet == {3, frame_height}

InitRoundTrip ==
    /\ InitTracking /\ InitOverlay /\ InitStrategy
    /\ rx \in RatioSet /\ ry \in RatioSet /\ fw \in WidthSet /\ fh \in HeightSet
    /\ pixels = <<>> /\ ratios = <<>> /\ pc = "ratio"

ToPixels ==
    /\ pc = "ratio"
    /\ pixels' = ratio_to_pixels(<< <<rx, ry>> >>, fw, fh)
    /\ pc' = "pixels"
    /\ UNCHANGED <<trackingVars, overlayVars, strategyVars, rx, ry, fw, fh, ratios>>

ToRatio ==
    /\ pc = "pixels"
    /\ ratios' = pixels_to_ratio(pixels, fw, fh)
    /\ pc' = "done"
    /\ UNCHANGED <<trackingVars, overlayVars, strategyVars, rx, ry, fw, fh, pixels>>

NextConv == ToPixels \/ ToRatio

SpecConv == InitRoundTrip /\ [][NextConv]_vars

\* SpecOverlay: the producers called in any order while the overlay thread
\* works through the queue at its own pace; the core stops producing once
\* MaxPending updates are pending
SuggestionSet == {None, <<960, 540>>}

Producers ==
    \/ \E position \in SuggestionSet : update_suggestion(position)
    \/ toggle_debug_mode
    \/ \E is_enemy \in BOOLEAN, is_predicted \in BOOLEAN :
            add_minion_marker(1, <<960, 540>>, is_enemy, is_predicted)
    \/ clear_minion_markers

Produce ==
    /\ Len(update_queue) < MaxPending
    /\ Producers
    /\ UNCHANGED <<trackingVars, convVars, strategyVars, logVars>>

Consume == process_updates /\ UNCHANGED <<trackingVars, convVars, strategyVars, logVars>>

NextOverlay == Produce \/ Consume

SpecOverlay == Init /\ [][NextOverlay]_vars

\* SpecDelivery: MaxUpdates producer calls and the turns of _process_updates in
\* any interleaving, every update numbered as it is put on the queue
Send ==
    /\ put_count < MaxUpdates
    /\ Producers
    /\ IF Len(update_queue') > Len(update_queue)
       THEN /\ put_count' = put_count + 1
            /\ serials' = Append(serials, put_count + 1)
       ELSE UNCHANGED <<put_count, serials>>
    /\ UNCHANGED <<trackingVars, convVars, strategyVars, handled>>

Handle ==
    /\ process_updates
    /\ handled' = Append(handled, serials[get_nowait(update_queue)])
    /\ serials' = Remove(serials, get_nowait(update_queue))
    /\ UNCHANGED <<trackingVars, convVars, strategyVars, put_count>>

NextDelivery == Send \/ Handle

SpecDelivery == Init /\ [][NextDelivery]_vars

RECURSIVE Walked(_, _, _)
\* the track m after n more sightings, one every 0.2 s, each a step further
Walked(m, step, n) ==
    IF n = 0 THEN m
    ELSE Walked(update_position(m, <<Last(m.positions)[1] + step[1],
                                     Last(m.positions)[2] + step[2]>>,
                                Last(m.timestamps) + 2),
                step, n - 1)

\* enemy tracks last seen at Epoch: three just found (left and high, left and
\* low, middle), and one coming from the right at 100 px/s
EnemyTracks ==
    { Minion(1, <<300, 200>>, Epoch),
      Minion(2, <<400, 900>>, Epoch),
      Minion(3, <<960, 540>>, Epoch),
      Walked(Minion(4, <<1500, 800>>, Epoch - 10), <<-20, 0>>, 5) }

\* a crowd of four, two of them coming from the right
Crowd ==
    [i \in 1 .. 4 |->
        IF i <= 2 THEN Walked(Minion(4, <<1500, 800>>, Epoch - 10), <<-20, 0>>, 5)
        ELSE Minion(3, <<960, 540>>, Epoch)]

\* the track m, had everything happened d later
Later(m, d) ==
    [m EXCEPT !.timestamps = [i \in DOMAIN @ |-> @[i] + d],
              !.creation_time = @ + d,
              !.last_seen = @ + d,
              !.predicted_positions =
                  [i \in DOMAIN @ |-> <<@[i][1], @[i][2], @[i][3] + d>>]]

\* the enemy lists of a call at time: none, one or two tracks, or the crowd,
\* last seen at time
EnemyLists(time) ==
    {[i \in DOMAIN l |-> Later(l[i], time - Epoch)] :
        l \in {<<>>, Crowd} \union {<<m>> : m \in EnemyTracks}
                  \union {<<m, n>> : m \in EnemyTracks, n \in EnemyTracks}}

\* time between two calls of the analyzer
CallGaps == {4 * Second, 6 * Second}

OptimalPlacement ==
    /\ \E dt \in CallGaps :
         /\ now + dt <= Epoch + Watch
         /\ now' = now + dt
         /\ \E enemies \in EnemyLists(now + dt) :
              /\ enemy_minions' = enemies
              /\ calculate_optimal_placement(enemies, now + dt)
    /\ last_call' = "calculate_optimal_placement"
    /\ UNCHANGED <<trackingVars, convVars, overlayVars>>

PredictivePlacement ==
    /\ \E dt \in CallGaps :
         /\ now + dt <= Epoch + Watch
         /\ now' = now + dt
         /\ \E enemies \in EnemyLists(now + dt) :
              /\ enemy_minions' = enemies
              /\ get_predictive_placement(enemies, now + dt)
    /\ last_call' = "get_predictive_placement"
    /\ UNCHANGED <<trackingVars, convVars, overlayVars>>

NextStrategy == OptimalPlacement \/ PredictivePlacement

SpecStrategy == Init /\ [][NextStrategy]_vars

-----------------------------------------------------------------------------
(* Properties of a track (SpecTrack) *)

\* the tracks a cycle leaves in the map and found there
Kept == Ids(minions) \cap Ids(minions')

\* C1: positions and timestamps of every track have the same length, between
\* 1 and 80; an update appends the new sample to both, and at capacity the
\* oldest position and the oldest timestamp leave together.
C1_HistoriesCoIndexed ==
    [][\A id \in Ids(minions') :
        LET m == minions'[id]
        IN  /\ Len(m.positions) = Len(m.timestamps)
            /\ Len(m.positions) >= 1
            /\ Len(m.positions) <= maxlen
            /\ id \in DOMAIN matched' =>
                LET o == minions[id]
                    full == Len(o.positions) = maxlen
                IN  /\ m.positions =
                            (IF full THEN Tail(o.positions) ELSE o.positions)
                                \o <<detected_positions'[matched'[id]]>>
                    /\ m.timestamps =
                            (IF full THEN Tail(o.timestamps) ELSE o.timestamps)
                                \o <<current_time'>>]_vars

\* an update arrived at capacity: the creation sample has left both histories
C1_EvictedAtCapacity ==
    /\ 1 \in DOMAIN matched
    /\ Len(minions[1].positions) = maxlen
    /\ Len(minions[1].timestamps) = maxlen
    /\ minions[1].timestamps[1] > minions[1].creation_time

\* C2: total_distance_traveled of a track never decreases, over updates and
\* over cycles that do not update it.
C2_DistanceNeverDecreases ==
    [][\A id \in Kept :
        minions'[id].total_distance_traveled >= minions[id].total_distance_traveled]_vars

\* the track has moved, leftwards, and has then been left alone for a cycle
C2_MovedLeftThenHidden ==
    /\ 1 \in Ids(minions)
    /\ minions[1].total_distance_traveled > MIN_DISTANCE_TRAVELED
    /\ Last(minions[1].positions)[1] < PointA[1]
    /\ 1 \notin DOMAIN matched

\* C3: once original_classification is set, no update or cycle changes it,
\* also when general_direction flips.
C3_ClassificationFrozen ==
    [][\A id \in Kept :
        minions[id].original_classification # None =>
            minions'[id].original_classification = minions[id].original_classification]_vars

\* classified as enemy while moving right, the track now moves left
C3_FlippedAfterClassification ==
    /\ 1 \in DOMAIN matched
    /\ minions[1].original_classification = Some(TRUE)
    /\ minions[1].general_direction = "left"

\* C4: a track with fewer than 5 recorded samples has general_direction
\* "unknown" and original_classification unset.
C4_FewSamplesUnknown ==
    \A id \in Ids(minions) :
        Len(minions[id].positions) < 5 =>
            /\ minions[id].general_direction = "unknown"
            /\ minions[id].original_classification = None

\* four samples, the last more than 50 px from the first
C4_FourSamplesFarApart ==
    /\ 1 \in DOMAIN matched
    /\ Len(minions[1].positions) = 4
    /\ Last(minions[1].positions)[1] - minions[1].positions[1][1] > 50

RWithin(r, lo, hi) == ~RLess(r, <<lo, 1>>) /\ ~RLess(<<hi, 1>>, r)

\* the track hardly moves: both velocity components are at most 1 px/s
Slow(m) == ~RLess(<<1, 1>>, RAbs(m.velocity[1])) /\ ~RLess(<<1, 1>>, RAbs(m.velocity[2]))

\* C21: after an update of a track, predicted_positions is empty when the track
\* has fewer than 5 samples or both velocity components have magnitude at most
\* 1; otherwise it is not empty, every point lies in [0, frame_width] x
\* [0, frame_height], and the timestamps are later than that of the update and
\* increase along the sequence.
C21_PredictionRebuilt ==
    [][\A id \in DOMAIN matched' \cap Kept :
        LET m == minions'[id]
            pts == m.predicted_positions
        IN  IF Len(m.positions) < MIN_POINTS_FOR_PREDICTION \/ Slow(m)
            THEN pts = <<>>
            ELSE /\ pts # <<>>
                 /\ \A i \in DOMAIN pts :
                        /\ RWithin(pts[i][1], 0, frame_width)
                        /\ RWithin(pts[i][2], 0, frame_height)
                        /\ pts[i][3] > current_time'
                        /\ i > 1 => pts[i][3] > pts[i - 1][3]]_vars

\* the track has just been updated and the end of its predicted path was
\* brought back to the right edge of the frame
C21_PredictionHeldAtEdge ==
    /\ 1 \in DOMAIN matched
    /\ 1 \in Ids(minions)
    /\ minions[1].predicted_positions # <<>>
    /\ Last(minions[1].predicted_positions)[1] = <<frame_width, 1>>
    /\ RLess(<<frame_width, 1>>,
             Extrapolate(Last(minions[1].positions)[1], minions[1].velocity[1],
                         minions[1].acceleration[1], PREDICTION_TIME - 1))

\* the target times asked of a track: the past, the present and the future
TargetTimes == {0, current_time, current_time + 1, current_time + PREDICTION_TIME}

\* C22: for any target time get_predicted_position_at_time of a live track is
\* not None, and it is the last known position whenever the track has no stored
\* prediction sequence.
C22_FallbackToLastPosition ==
    \A id \in Ids(minions), target_time \in TargetTimes :
        LET m == minions[id]
            predicted_pos == get_predicted_position_at_time(m, target_time)
        IN  /\ predicted_pos # None
            /\ m.predicted_positions = <<>>
                => predicted_pos = <<(<<Last(m.positions)[1], 1>>),
                                     (<<Last(m.positions)[2], 1>>)>>

\* a track that had a prediction sequence and lost it by standing still
C22_StoodStill ==
    /\ 1 \in Ids(minions)
    /\ Len(minions[1].positions) >= MIN_POINTS_FOR_PREDICTION
    /\ minions[1].general_direction # "unknown"
    /\ minions[1].predicted_positions = <<>>

\* C23: an active track matched to no candidate in a cycle comes out of the
\* cycle with every field as it was (positions, timestamps, last_seen,
\* total_distance_traveled, max_speed, consecutive_stationary_frames,
\* general_direction, original_classification, velocity, predicted_positions
\* and the rest), except for active and is_valid_minion.
C23_UnmatchedUntouched ==
    [][\A id \in Kept :
        (minions[id].active /\ id \notin DOMAIN matched')
        => [minions'[id] EXCEPT !.active = minions[id].active,
                                !.is_valid_minion = minions[id].is_valid_minion]
           = minions[id]]_vars

\* a track with a predicted path that was left unmatched and has gone inactive
C23_HiddenWhileMoving ==
    /\ 1 \in Ids(minions) \ DOMAIN matched
    /\ ~minions[1].active
    /\ minions[1].predicted_positions # <<>>
    /\ current_time - minions[1].last_seen <= REID_MAX_TIME

\* the direction that leads away from the side of the player
AwayFrom(player_side) == IF player_side = "left" THEN "right" ELSE "left"

\* C25: classify_as_enemy is true exactly when general_direction is the direction
\* away from the player side, for either player side, and so false when the
\* direction is unknown; a valid track of unknown direction is not among
\* get_enemy_minions.
C25_EnemyMovesAway ==
    /\ \A player_side \in {"left", "right"}, direction \in {"unknown", "left", "right"} :
            ClassifyFor(player_side, direction) <=> direction = AwayFrom(player_side)
    /\ \A id \in Ids(minions) :
        /\ classify_as_enemy(minions[id])
                <=> minions[id].general_direction = AwayFrom(PLAYER_SIDE)
        /\ (minions[id].is_valid_minion /\ minions[id].general_direction = "unknown")
                => id \notin get_enemy_minions

\* a validated active track, 150 px from where it was created, whose direction
\* is still unknown
C25_ValidatedUndecided ==
    /\ 1 \in get_active_minions
    /\ Last(minions[1].positions)[1] - PointA[1] > 100
    /\ minions[1].general_direction = "unknown"
    /\ 1 \notin get_enemy_minions

\* C27: every live track has at least one recorded position (and as many
\* timestamps), last_seen is its most recent timestamp, and creation_time <=
\* last_seen; the timestamps of the cycles never go back.
C27_LastSampleReadable ==
    \A id \in Ids(minions) :
        LET m == minions[id]
        IN  /\ Len(m.positions) >= 1
            /\ Len(m.timestamps) >= 1
            /\ m.last_seen = Last(m.timestamps)
            /\ m.creation_time <= m.last_seen

\* a track whose history is full and has lost its first samples, creation
\* sample included
C27_FullHistory ==
    /\ 1 \in Ids(minions)
    /\ Len(minions[1].positions) = maxlen
    /\ minions[1].timestamps[1] > minions[1].creation_time

\* C29: max_speed of a track never decreases, and after every cycle a track
\* whose max_speed is 200 px/s or more is invalid and is neither among
\* get_active_minions nor among get_enemy_minions; so a track that once
\* recorded such a speed stays out until it is evicted.
C29_TooFastForGood ==
    [][\A id \in Ids(minions') :
        /\ id \in Ids(minions)
            => ~RLess(minions'[id].max_speed, minions[id].max_speed)
        /\ ~RLess(minions'[id].max_speed, <<200, 1>>)
            => /\ ~minions'[id].is_valid_minion
               /\ id \notin get_active_minions'
               /\ id \notin get_enemy_minions']_vars

\* a track frozen as enemy that ran at 225 px/s in its first cycles and has
\* been followed at 100 px/s for a long time since
C29_SlowedDownEnemy ==
    /\ 1 \in Ids(minions)
    /\ minions[1].active
    /\ minions[1].original_classification = Some(TRUE)
    /\ ~RLess(minions[1].max_speed, <<200, 1>>)
    /\ drive = <<20, 2, TRUE>>
    /\ Len(minions[1].positions) > 20
    /\ 1 \notin get_enemy_minions

\* C20 as stated: after an update that leaves a track with at least 5 samples and
\* its latest x more than 50 px from the x it was created at (PointA, where Spawn
\* creates the followed track), general_direction is the sign of that
\* displacement, also once the oldest samples have left the history.
C20_DirectionSinceCreation ==
    [][\A id \in DOMAIN matched' \cap Kept :
        LET m == minions'[id]
            displacement == Last(m.positions)[1] - PointA[1]
        IN  (Len(m.positions) >= 5 /\ Abs(displacement) > 50)
            => m.general_direction = IF displacement > 0 THEN "right" ELSE "left"]_vars

-----------------------------------------------------------------------------
(* Properties of the manager *)

\* C5 (SpecSpawn): a cycle with more than MASS_SPAWN_THRESHOLD candidates
\* creates no track and leaves next_minion_id alone, whatever was associated.
C5_MassSpawnCreatesNothing ==
    [][Len(detected_positions') > MASS_SPAWN_THRESHOLD =>
        /\ Ids(minions') \subseteq Ids(minions)
        /\ next_minion_id' = next_minion_id]_vars

\* 25 candidates, one of them associated with an existing track
C5_BurstWithAssociation ==
    /\ Len(detected_positions) = MASS_SPAWN_THRESHOLD + 5
    /\ DOMAIN matched # {}
    /\ Cardinality(Ids(minions)) < Len(detected_positions)

\* last_seen of track i once the cycle is over (of an evicted track: as it was)
LastSeenAfter(i) ==
    IF i \in Ids(minions') THEN minions'[i].last_seen ELSE minions[i].last_seen

\* C6 (Spec): after a cycle at time T, a track unseen for more than
\* MOVEMENT_MEMORY is not among get_active_minions(); unseen for at most
\* REID_MAX_TIME it is still in the map, unseen for longer it is not.
C6_AgeingWindows ==
    [][\A i \in Ids(minions) \cup Ids(minions') :
        LET unseen == current_time' - LastSeenAfter(i)
        IN  /\ unseen > MOVEMENT_MEMORY => i \notin get_active_minions'
            /\ unseen > MOVEMENT_MEMORY /\ unseen <= REID_MAX_TIME =>
                    i \in Ids(minions')
            /\ unseen > REID_MAX_TIME => i \notin Ids(minions')]_vars

\* a cycle that evicted one track and kept another, validated and unseen for
\* more than the memory window, which was among the active ones before
C6_StaleKeptAndEvicted ==
    /\ removed # {}
    /\ \E i \in Ids(minions) :
        /\ minions[i].is_valid_minion
        /\ current_time - minions[i].last_seen > MOVEMENT_MEMORY
        /\ current_time - minions[i].last_seen <= REID_MAX_TIME
        /\ i \notin get_active_minions

\* C10 (Spec): next_minion_id never decreases, every track in the map has an
\* id below it, and the tracks a cycle creates get the ids from the old value
\* of the counter up to the new one: above every id assigned before, also the
\* ids of evicted tracks.
C10_IdsNeverReused ==
    [][/\ next_minion_id' >= next_minion_id
       /\ \A i \in Ids(minions) : i < next_minion_id
       /\ \A i \in Ids(minions') :
            minions'[i].creation_time = current_time' =>
                i >= next_minion_id /\ i < next_minion_id'
       /\ Cardinality({i \in Ids(minions') : minions'[i].creation_time = current_time'})
            = next_minion_id' - next_minion_id]_vars

\* a track created in a cycle after the one that evicted a lower id
C10_CreatedAfterEviction ==
    \E i \in 1 .. (next_minion_id - 1), j \in Ids(minions) :
        /\ i \notin Ids(minions)
        /\ i \notin removed
        /\ minions[j].creation_time = current_time
        /\ j > i

\* C8 (SpecAssoc): a candidate is associated only with a track whose similarity
\* to it is above HIST_SIMILARITY_THRESHOLD; with two active tracks a and b, one
\* candidate within tolerance of both, similarity 0.6 to a and 0.2 to b, the
\* candidate updates a and b is left as it was, in either order of a and b.
C8_SimilarityFloor ==
    [][/\ \A id \in DOMAIN matched' :
            similarity'[id][matched'[id]] > HIST_SIMILARITY_THRESHOLD
       /\ \A a, b \in ActiveIds :
            /\ a # b
            /\ ActiveIds = {a, b}
            /\ Len(detected_positions') = 1
            /\ MatchDistance2(minions[a], detected_positions'[1], current_time')
                    < 2 * REID_TOLERANCE
            /\ MatchDistance2(minions[b], detected_positions'[1], current_time')
                    < 2 * REID_TOLERANCE
            /\ similarity'[a][1] = 60
            /\ similarity'[b][1] = 20
            => /\ matched' = (a :> 1)
               /\ Last(minions'[a].positions) = detected_positions'[1]
               /\ minions'[b].positions = minions[b].positions
               /\ minions'[b].last_seen = minions[b].last_seen]_vars

\* the scenario with b, the track visited first, below the floor
C8_SecondTrackTakesCandidate ==
    /\ DOMAIN similarity = {1, 2}
    /\ Len(detected_positions) = 1
    /\ similarity[1][1] = 20
    /\ similarity[2][1] = 60
    /\ matched = (2 :> 1)
    /\ minions[1].last_seen < current_time

\* C11 (SpecTrack): get_active_minions() is the tracks with active and
\* is_valid_minion; get_enemy_minions() is those of them whose classification is
\* enemy, the frozen original_classification when set and the direction rule
\* otherwise: a track frozen as enemy stays listed after its direction has
\* reversed, a track frozen as ally is never listed.
C11_EnemiesByFrozenClassification ==
    /\ get_enemy_minions \subseteq get_active_minions
    /\ \A id \in Ids(minions) :
        LET m == minions[id]
            listed == m.active /\ m.is_valid_minion
        IN  /\ id \in get_active_minions <=> listed
            /\ m.original_classification = Some(TRUE) =>
                    (id \in get_enemy_minions <=> listed)
            /\ m.original_classification = Some(FALSE) => id \notin get_enemy_minions
            /\ m.original_classification = None =>
                    (id \in get_enemy_minions <=>
                        listed /\ m.general_direction = "right")

\* a listed track frozen as enemy that now moves left
C11_EnemyInRetreat ==
    /\ 1 \in get_enemy_minions
    /\ minions[1].original_classification = Some(TRUE)
    /\ minions[1].general_direction = "left"

-----------------------------------------------------------------------------
(* Properties of the association (SpecReid) *)

\* the distance of candidate i of the cycle from the last position track id had
\* before the cycle
RawDistance(id, i) ==
    Hypot(Last(minions[id].positions)[1] - detected_positions'[i][1],
          Last(minions[id].positions)[2] - detected_positions'[i][2])

\* the candidates of the cycle within the re-identification tolerance of track
\* id and above the similarity floor
EligibleFor(id) ==
    {i \in 1 .. Len(detected_positions') :
        /\ RawDistance(id, i) < REID_TOLERANCE
        /\ similarity'[id][i] > HIST_SIMILARITY_THRESHOLD}

\* C13 as stated: the track visited first (every candidate is still unused)
\* that has eligible candidates is matched, and no eligible candidate is more
\* similar than the matched one, in whatever order the candidates come.
C13_MostSimilarMatched ==
    [][\A id \in ActiveIds :
        (id = Min(ActiveIds) /\ EligibleFor(id) # {})
        => /\ id \in DOMAIN matched'
           /\ \A j \in EligibleFor(id) :
                similarity'[id][matched'[id]] >= similarity'[id][j]]_vars

\* C14 as stated: every candidate associated to a track is less than
\* REID_TOLERANCE away from the last position the track had.
C14_MatchedWithinTolerance ==
    [][\A id \in DOMAIN matched' : RawDistance(id, matched'[id]) < REID_TOLERANCE]_vars

\* C15 as stated: when the only track is inactive and not yet due for eviction
\* and the only candidate is within tolerance and above the similarity floor,
\* the track is re-identified and no new track is created.
C15_InactiveReidentified ==
    [][\A id \in Ids(minions) :
        ( /\ Ids(minions) = {id}
          /\ ~minions[id].active
          /\ ~Expired(minions[id], current_time')
          /\ Len(detected_positions') = 1
          /\ EligibleFor(id) = {1} )
        => /\ id \in DOMAIN matched'
           /\ next_minion_id' = next_minion_id]_vars

-----------------------------------------------------------------------------
(* Properties of the ageing (SpecEvict) *)

\* the ids a run of SpecEvict can give out
EvictIds == 1 .. (2 + SightUntil \div MinGap)

Live(id) == id \in Ids(minions)
Unmatched(id) == id \in Ids(minions) \ DOMAIN matched

\* C28: while the cycles keep running, a live track left unmatched is matched
\* again, or else it is marked inactive (or removed at once) and later removed;
\* the tracks a cycle adds to the live set carry ids never given before, so a
\* removed track does not come back.
C28_UnseenTrackLeaves ==
    /\ \A id \in EvictIds :
        /\ (Unmatched(id) /\ minions[id].active)
                ~> (id \in DOMAIN matched \/ ~Live(id) \/ ~minions[id].active)
        /\ Unmatched(id) ~> (id \in DOMAIN matched \/ ~Live(id))
    /\ [][\A id \in Ids(minions') \ Ids(minions) :
            id >= next_minion_id /\ \A old \in Ids(minions) \cup removed : old < id]_vars

\* the first track has been marked inactive and removed while a later track,
\* created where it stood, is live
C28_GoneWhileSuccessorLives ==
    /\ 1 \notin Ids(minions)
    /\ 2 \in Ids(minions)
    /\ minions[2].positions[1] = PointA
    /\ next_minion_id > 2

\* every track of SpecEvict is gone before the cycles stop at Horizon
EvictBeforeHorizon == Ids(minions) # {} => current_time < Horizon

-----------------------------------------------------------------------------
(* Properties of the candidates of a cycle (SpecConsume) *)

\* the candidates the cycle has associated to a track
UsedDetections == {matched'[id] : id \in DOMAIN matched'}

\* the id of the track created for candidate i of the cycle: new ids are given
\* in the order of the unused candidates
CreatedFor(i) ==
    next_minion_id + Cardinality({j \in 1 .. (i - 1) : j \notin UsedDetections})

\* C24: in a cycle with at most MASS_SPAWN_THRESHOLD candidates every candidate
\* is consumed exactly once: no two tracks are updated by the same candidate and
\* no track by two candidates, a track updated by a candidate now ends at it,
\* every other candidate has one new track of its own located at it, and there
\* are no further new tracks.
C24_CandidatesConsumedOnce ==
    [][Len(detected_positions') <= MASS_SPAWN_THRESHOLD =>
        /\ \A a, b \in DOMAIN matched' : matched'[a] = matched'[b] => a = b
        /\ \A id \in DOMAIN matched' :
            /\ id \in Ids(minions) \cap Ids(minions')
            /\ matched'[id] \in 1 .. Len(detected_positions')
            /\ Last(minions'[id].positions) = detected_positions'[matched'[id]]
            /\ Len(minions'[id].positions) = Len(minions[id].positions) + 1
        /\ \A i \in (1 .. Len(detected_positions')) \ UsedDetections :
            /\ CreatedFor(i) \notin Ids(minions)
            /\ CreatedFor(i) \in Ids(minions')
            /\ minions'[CreatedFor(i)].positions = <<detected_positions'[i]>>
            /\ minions'[CreatedFor(i)].creation_time = current_time'
        /\ Cardinality(Ids(minions') \ Ids(minions))
            = Len(detected_positions') - Cardinality(UsedDetections)
        /\ \A id \in Kept \ DOMAIN matched' :
            minions'[id].positions = minions[id].positions]_vars

\* a cycle of exactly MASS_SPAWN_THRESHOLD candidates, one of them associated to
\* the track that was there and the others made into tracks
C24_FullListShared ==
    /\ Len(detected_positions) = MASS_SPAWN_THRESHOLD
    /\ DOMAIN matched = {1}
    /\ Cardinality(Ids(minions)) = MASS_SPAWN_THRESHOLD

-----------------------------------------------------------------------------
(* Properties of one update (SpecStep) *)

\* the tracks the cycle has updated
Updated == DOMAIN matched' \cap Kept

\* C17 as stated: after an update the stationary counter is 0 if the step is
\* longer than STATIONARY_THRESHOLD and the previous value plus 1 otherwise.
C17_ResetAboveThreshold ==
    [][\A id \in Updated :
        minions'[id].consecutive_stationary_frames =
            IF RawDistance(id, matched'[id]) > STATIONARY_THRESHOLD THEN 0
            ELSE minions[id].consecutive_stationary_frames + 1]_vars

\* C17, amended: after an update with a timestamp later than that of the
\* previous sample the stationary counter is 0 if the step is at least
\* STATIONARY_THRESHOLD and the previous value plus 1 if it is shorter; an update
\* whose timestamp is not later leaves the counter as it was.
C17_ResetFromThreshold ==
    [][\A id \in Updated :
        minions'[id].consecutive_stationary_frames =
            IF current_time' - Last(minions[id].timestamps) <= 0
            THEN minions[id].consecutive_stationary_frames
            ELSE IF RawDistance(id, matched'[id]) >= STATIONARY_THRESHOLD THEN 0
            ELSE minions[id].consecutive_stationary_frames + 1]_vars

\* a short step with the timestamp of the sample before it, then a step of
\* exactly the threshold at a later time: the counter is back at 0
C17_ThresholdStepAfterShortOnes ==
    /\ 1 \in Ids(minions)
    /\ LET m == minions[1]
           n == Len(m.positions)
       IN  /\ n >= 4
           /\ m.positions[n][1] - m.positions[n - 1][1] = STATIONARY_THRESHOLD
           /\ m.positions[n][2] = m.positions[n - 1][2]
           /\ m.timestamps[n] > m.timestamps[n - 1]
           /\ m.positions[n - 1][1] - m.positions[n - 2][1] < STATIONARY_THRESHOLD
           /\ m.timestamps[n - 1] = m.timestamps[n - 2]
           /\ m.timestamps[n - 2] > m.timestamps[n - 3]
           /\ m.positions[n - 2][1] - m.positions[n - 3][1] < STATIONARY_THRESHOLD
           /\ m.positions[n - 2][2] = m.positions[n - 3][2]
           /\ m.consecutive_stationary_frames = 0

\* the side of the midline a position lies on
SideOf(position) == IF 2 * position[1] < frame_width THEN "left" ELSE "right"

\* C18 as stated: after an update current_side is the side of the latest
\* position, however few samples the track holds, and spawn_side is as it was.
C18_SideOfLatestPosition ==
    [][\A id \in Updated :
        /\ minions'[id].current_side = SideOf(Last(minions'[id].positions))
        /\ minions'[id].spawn_side = minions[id].spawn_side]_vars

\* C19 as stated: the bridge of every track is top or bottom.
C19_BridgeTopOrBottom ==
    \A id \in Ids(minions) : minions[id].optimal_bridge \in {"top", "bottom"}

\* C19, amended: the bridge of a track is unknown while the track holds fewer
\* than 5 samples and top or bottom from its fifth sample on; get_strategy_info
\* of a validated track gives that same value.
C19_BridgeKnownFromFiveSamples ==
    \A id \in Ids(minions) :
        LET m == minions[id]
        IN  /\ Len(m.positions) < 5 => m.optimal_bridge = "unknown"
            /\ Len(m.positions) >= 5 => m.optimal_bridge \in {"top", "bottom"}
            /\ get_strategy_info(m) # None
                => get_strategy_info(m)[1].optimal_bridge = m.optimal_bridge

\* a validated track that has come down into the central band, with its bridge
\* chosen by the trend
C19_BottomByTrend ==
    /\ 1 \in get_active_minions
    /\ 100 * Last(minions[1].positions)[2] <= 65 * frame_height
    /\ 100 * Last(minions[1].positions)[2] >= 35 * frame_height
    /\ get_strategy_info(minions[1])[1].optimal_bridge = "bottom"

-----------------------------------------------------------------------------
(* Properties of the overlay queue (SpecOverlay) *)

\* C12 as stated: the queue is bounded, a producer call on a full queue drops
\* its update.  Whatever the capacity below MaxPending (here MaxPending - 1),
\* the pending updates never exceed it.
C12_QueueBounded == Len(update_queue) < MaxPending

\* C26: every update put on the queue is processed at most once, and the
\* processed updates are handled in the order they were put: the ranks of the
\* processed updates are ranks of updates that were put, and they increase.
C26_HandledOnceInOrder ==
    /\ \A i \in DOMAIN handled : handled[i] \in 1 .. put_count
    /\ \A i, j \in DOMAIN handled : i < j => handled[i] < handled[j]
    /\ \A i \in DOMAIN serials : \A j \in DOMAIN handled : serials[i] # handled[j]

\* every update of the run was put; a debug toggle and a marker put after it
\* have been handled, and the last update is still pending
C26_Interleaved ==
    /\ put_count = MaxUpdates
    /\ Len(handled) = 2
    /\ Len(update_queue) = MaxUpdates - 2
    /\ debug_elements = "normal"
    /\ minion_markers # <<>>

-----------------------------------------------------------------------------
(* Properties of the conversions (SpecConv) *)

\* the tolerance granted to the floats
Tolerance == <<1, 100000>>

Near(p, q) == ~RLess(Tolerance, RAbs(RSub(p, q)))

\* C9 as stated: ratio_to_pixels followed by pixels_to_ratio returns the
\* original ratio pair within floating-point tolerance.
C9_RoundTripIsIdentity ==
    pc = "done" => Near(ratios[1][1], rx) /\ Near(ratios[1][2], ry)

\* C9 amended: the round trip returns a pair that is not above the original and
\* falls short of it by at most one pixel: 1/frame_width in x, 1/frame_height
\* in y.
C9_RoundTripWithinOnePixel ==
    pc = "done" =>
        /\ ~RLess(rx, ratios[1][1])
        /\ ~RLess(<<1, fw>>, RSub(rx, ratios[1][1]))
        /\ ~RLess(ry, ratios[1][2])
        /\ ~RLess(<<1, fh>>, RSub(ry, ratios[1][2]))

\* a round trip that lost a fraction of a pixel in both coordinates
C9_TruncatedRoundTrip ==
    /\ pc = "done"
    /\ RLess(ratios[1][1], rx)
    /\ RLess(ratios[1][2], ry)

-----------------------------------------------------------------------------
(* Properties of the placement (SpecStrategy) *)

\* the configured positions, converted to pixels
ConfiguredPositions ==
    random_choice(defensive_positions) \union random_choice(offensive_positions)
        \union random_choice(central_positions)

\* C30: a position returned by calculate_optimal_placement, and a position
\* other than None returned by get_predictive_placement, is one of the
\* configured defensive, offensive or central positions in pixels, whatever
\* the enemies and the strategy history; get_predictive_placement returns
\* None only for an empty enemy list.
C30_PlacementIsConfigured ==
    /\ last_call = "calculate_optimal_placement" => placement \in ConfiguredPositions
    /\ last_call = "get_predictive_placement" =>
          /\ placement # None => placement \in ConfiguredPositions
          /\ placement = None => enemy_minions = <<>>

\* a predictive placement made from an extrapolated enemy, after the same
\* strategy was used three times running
C30_InterceptedAfterHistory ==
    /\ last_call = "get_predictive_placement"
    /\ \E i \in DOMAIN enemy_minions : enemy_minions[i].predicted_positions # <<>>
    /\ placement \in ConfiguredPositions
    /\ consecutive_same_strategy >= 3

=============================================================================
